---------------------------- MODULE Spec2Model ----------------------------
(***************************************************************************)
(* Model of the open-loop experiment of the plasma-jet repository:         *)
(* Experiment.run_open_loop and exp_data_saver (utils/experiments.py) and  *)
(* the measurement fan-out async_measure (utils/async_measurement.py),     *)
(* with the frame queue of utils/thermal_camera.py and the script          *)
(* resave_from_backup.py.                                                  *)
(*                                                                         *)
(* Time is counted in whole units.  A blocking driver call takes between   *)
(* 0 and MaxDur units; the sampling period runOpts.tSampling is            *)
(* SamplingUnits units.  Readings are identified by the number of the      *)
(* measurement that produced them: -1 for the sizing measurement made      *)
(* before the loop, i for tick i.                                          *)
(***************************************************************************)
EXTENDS Integers, Sequences, FiniteSets, TLC

\* ---------------------------------------------------------------- bounds
\* longest input sequence handed to run_open_loop
MaxSeq == 3
\* longest time one blocking driver call (or one actuation) takes
MaxDur == 1
\* the sampling period runOpts.tSampling, in time units
SamplingUnits == 2
\* frames per batch file (the source uses 200, experiments.py line 33)
BatchSize == 2
\* most lines async_get_emb reads again within one sample
MaxRetry == 1
\* most channels the oscilloscope of a saved run had
MaxChannels == 5

N_PER_BAT_FILE == BatchSize
\* thermal_camera.py line 19: the capacity of the frame queue
BUF_SIZE == 2

\* Python's None, as a reading or as a handle
None == [tag |-> "None"]

\* the four tasks of async_measure, by their index in its task list
THERMAL == 0
SPECTRA == 1
OSC == 2
EMB == 3
TaskIds == {THERMAL, SPECTRA, OSC, EMB}

Min2(a, b) == IF a <= b THEN a ELSE b
Max2(a, b) == IF a >= b THEN a ELSE b
\* int(np.ceil(a / b)) for a >= 0, b > 0
CeilDiv(a, b) == (a + b - 1) \div b


\* ------------------------------------------------------------- readings
\* What the instruments deliver in measurement m (m = -1: the sizing
\* measurement, m >= 0: tick m).  The numbers only tell readings apart.
TsOf(m) == 40 + m
Ts2Of(m) == 30 + m
Ts3Of(m) == 20 + m
IntensityOf(m) == 500 + m
SpectrumOf(m) == 600 + m
MeanShiftOf(m) == 700 + m
OscDataOf(m, c) == 1000 + 10 * m + c
TimeStampOf(m) == 2000 + m

\* getSurfaceTemperature(True, True) returns Ts_max, (Ts2, Ts3), (data, img);
\* async_get_temp returns [Ts_max, Ts2, Ts3, (data, img)]: element 3 is the
\* pair, a tuple, which has no attribute shape.
ThermalReading(m) ==
    [tag |-> "thermal", Ts |-> TsOf(m), Ts2 |-> Ts2Of(m), Ts3 |-> Ts3Of(m),
     raw_img |-> [tag |-> "tuple", data |-> m, img |-> m]]

\* async_get_spectra: wavelengths is None unless collectEntireSpectra
SpectralReading(m, opts) ==
    [tag |-> "spectral", totalIntensity |-> IntensityOf(m),
     intensitySpectrum |-> SpectrumOf(m),
     wavelengths |-> IF opts.collectEntireSpectra THEN [tag |-> "vector"] ELSE None,
     meanShift |-> MeanShiftOf(m)]

\* async_get_osc: [t, ch_datas], one entry of ch_datas per channel
OscReading(m, nch) ==
    [tag |-> "osc", t |-> m, ch_datas |-> [c \in 0..(nch - 1) |-> OscDataOf(m, c)]]

\* async_get_emb: the 14-element array built from one telemetry line.  The
\* loop is left (run = False, line 159) before the fields after the time
\* stamp are converted: when a conversion raises, the fields not yet assigned
\* keep their initial 0 ("part"); otherwise all come from the line ("all").
EmbReading(m, decoded) ==
    [tag |-> "emb", timeStamp |-> TimeStampOf(m), line |-> m, decoded |-> decoded]

\* hasattr(x, "shape"): numpy arrays have it, tuples do not
HasShape(x) == x.tag = "array"

\* ---------------------------------------------------------------- state
VARIABLES
    power_arg, flow_arg,   \* the arguments power_seq, flow_seq: None or a sequence
    devices,               \* the argument devices: None, or the keys of the dict
    oscChannels,           \* channels the oscilloscope delivers
    runOpts,               \* the RunOpts object (shared, mutable)
    pc, err,               \* position in run_open_loop; line of the exception that ended it
    power_seq, flow_seq,   \* the sequences after the input check
    Niter, i,
    handles,               \* arduinoPI, arduinoAddress, spec, osc after unpacking
    mstate,                \* async_measure: "off", "waiting" (in asyncio.wait), "returned"
    taskState, taskResult, \* the four tasks
    tasksFor,              \* the measurement the tasks were created for (history)
    curDur,                \* time the running task has spent in its driver calls (history)
    slowest,               \* the longest time one task of this fan-out spent so (history)
    embTries,              \* lines async_get_emb has read again in this sample
    embLine,               \* what the last readline of async_get_emb gave (history)
    clock,                 \* time since startTime of the tick (or of the sizing measurement)
    measRunTime,           \* runTime of async_measure (lines 39-43)
    bound,                 \* local names of run_open_loop that are bound
    Tsave, Isave, badTimes, Ts2save, Ts3save,
    specSave, meanShiftSave, waveSave, oscSave, n_channels, ArdSave,
    raw_img, raw_img_save_files, raw_img_save,
    disk,                  \* the batch files: file number -> slot -> frame
    cmds,                  \* the commands sent to the Arduino, in order
    mmap_opts,             \* dtype and shape of a batch file
    exp_data,              \* the run record (a dict), <<>> before it exists
    backup,                \* the JSON snapshot in the backup directory
    artifacts,             \* the files exp_data_saver has written: name -> content
    h5files,               \* the per-frame files it has written, in order
    ol_count,              \* self.ol_count
    q                      \* the frame queue of thermal_camera.py: for each queued
                           \* frame, the number of commands sent when it was taken

inputVars == <<power_arg, flow_arg, devices, oscChannels>>
measVars  == <<mstate, taskState, taskResult, tasksFor, curDur, slowest, embTries,
               embLine, measRunTime>>
saveVars  == <<mmap_opts, exp_data, backup, artifacts, h5files, ol_count>>
arrayVars == <<bound, Tsave, Isave, badTimes, Ts2save, Ts3save, specSave,
               meanShiftSave, waveSave, oscSave, n_channels, ArdSave,
               raw_img, raw_img_save_files, raw_img_save, disk>>

vars == <<power_arg, flow_arg, devices, oscChannels, runOpts, pc, err,
          power_seq, flow_seq, Niter, i, handles, mstate, taskState,
          taskResult, tasksFor, curDur, slowest, embTries, embLine, clock,
          measRunTime, bound,
          Tsave,
          Isave, badTimes, Ts2save, Ts3save, specSave, meanShiftSave,
          waveSave, oscSave, n_channels, ArdSave, raw_img,
          raw_img_save_files, raw_img_save, disk, cmds, mmap_opts, exp_data,
          backup, artifacts, h5files, ol_count, q>>

\* ---------------------------------------------------------------- arrays
\* A numpy array made by np.empty(n): its length and the elements written so
\* far (the others hold whatever the memory held).
NewArray(n) == [kind |-> "ndarray", len |-> n, at |-> <<>>]
\* np.asarray / np.array of a sequence, and ndarray.tolist()
ArrayOf(seq) == [kind |-> "ndarray", len |-> Len(seq),
                 at |-> [k \in 0..(Len(seq) - 1) |-> seq[k + 1]]]
ToList(a) == [a EXCEPT !.kind = "list"]
NpArray(a) == [a EXCEPT !.kind = "ndarray"]
Put(a, idx, v) == [a EXCEPT !.at = (idx :> v) @@ a.at]
Written(a) == DOMAIN a.at

\* ---------------------------------------------------------------- inputs
Device == [tag |-> "device"]
DeviceKeys == {"arduinoPI", "arduinoAddress", "spec", "osc"}
Given(s) == [tag |-> "seq", v |-> s]
PowerSeqOf(n) == [k \in 1..n |-> k]
FlowSeqOf(n) == [k \in 1..n |-> 10 + k]
\* the value typed in when one of the sequences is not given (lines 150, 155)
UserInputs == {5}

\* RunOpts.__init__: every flag True
DefaultRunOpts ==
    [collectData |-> TRUE, collectSpatialTemp |-> TRUE,
     collectEntireSpectra |-> TRUE, collectOscMeas |-> TRUE,
     collectEmbedded |-> TRUE, saveData |-> TRUE, saveSpatialTemp |-> TRUE,
     saveSpectra |-> TRUE, saveOscMeas |-> TRUE, saveEmbMeas |-> TRUE,
     saveEntireImage |-> TRUE, tSampling |-> SamplingUnits]

\* nothing measured, recorded, sent or saved yet
Fresh ==
    /\ err = 0
    /\ power_seq = <<>>
    /\ flow_seq = <<>>
    /\ Niter = 0
    /\ i = -1
    /\ handles = [k \in DeviceKeys |-> None]
    /\ mstate = "off"
    /\ taskState = [k \in TaskIds |-> "new"]
    /\ taskResult = [k \in TaskIds |-> None]
    /\ tasksFor = -1
    /\ curDur = 0
    /\ slowest = 0
    /\ embTries = 0
    /\ embLine = "none"
    /\ clock = 0
    /\ measRunTime = 0
    /\ bound = {}
    /\ Tsave = NewArray(0)
    /\ Isave = NewArray(0)
    /\ badTimes = <<>>
    /\ Ts2save = NewArray(0)
    /\ Ts3save = NewArray(0)
    /\ specSave = NewArray(0)
    /\ meanShiftSave = NewArray(0)
    /\ waveSave = None
    /\ oscSave = <<>>
    /\ n_channels = 0
    /\ ArdSave = NewArray(0)
    /\ raw_img = None
    /\ raw_img_save_files = 0
    /\ raw_img_save = None
    /\ cmds = <<>>
    /\ mmap_opts = None
    /\ backup = <<>>
    /\ artifacts = <<>>
    /\ h5files = <<>>
    /\ ol_count = 0

\* the state on entry to run_open_loop with the given arguments
InitWith(powers, flows, devs, chans, opts) ==
    /\ power_arg \in powers
    /\ flow_arg \in flows
    /\ devices \in devs
    /\ oscChannels \in chans
    /\ runOpts \in opts
    /\ pc = "entry"
    /\ disk = <<>>
    /\ exp_data = <<>>
    /\ q = <<>>
    /\ Fresh

\* ------------------------------------------------- run_open_loop: entry
\* the count taken from the power sequence alone
NiterOfPower(nP, nq) == nP

\* lines 162-173
NiterOf(nP, nq) == IF nP > nq THEN nq ELSE IF nq > nP THEN nP ELSE nP

\* lines 145-173: the check of the input sequences and the iteration count
CheckInputs ==
    /\ pc = "entry"
    /\ IF power_arg = None /\ flow_arg = None
       THEN /\ pc' = "quit"
            /\ UNCHANGED <<power_seq, flow_seq, Niter>>
       ELSE /\ \E x \in UserInputs :
                /\ power_seq' = IF power_arg = None
                                THEN [k \in 1..Len(flow_arg.v) |-> x]
                                ELSE power_arg.v
                /\ flow_seq' = IF flow_arg = None
                               THEN [k \in 1..Len(power_arg.v) |-> x]
                               ELSE flow_arg.v
            /\ Niter' = NiterOf(Len(power_seq'), Len(flow_seq'))
            /\ pc' = "unpack"
    /\ UNCHANGED <<inputVars, q, runOpts, err, i, handles, measVars, clock,
                   arrayVars, cmds, saveVars>>

\* lines 175-207: a missing key only prints a warning and leaves None
UnpackDevices ==
    /\ pc = "unpack"
    /\ IF devices = None
       THEN pc' = "error" /\ err' = 178 /\ UNCHANGED handles
       ELSE /\ handles' = [k \in DeviceKeys |->
                              IF k \in devices.keys THEN Device ELSE None]
            /\ pc' = "sizing"
            /\ UNCHANGED err
    /\ UNCHANGED <<inputVars, q, runOpts, power_seq, flow_seq, Niter, i,
                   measVars, clock, arrayVars, cmds, saveVars>>

\* ------------------------------------------------------- async_measure
Finished(k) == taskState[k] \in {"done", "failed"}
Measuring == pc \in {"sizing", "tick_measure"}
\* the number of the measurement under way
MeasNo == IF pc = "sizing" THEN -1 ELSE i

\* lines 32-40: the four tasks are created, in this order, and the caller
\* suspends in asyncio.wait(tasks)
CreateTasks ==
    /\ Measuring
    /\ mstate = "off"
    /\ mstate' = "waiting"
    /\ taskState' = [k \in TaskIds |-> "ready"]
    /\ taskResult' = [k \in TaskIds |-> None]
    /\ tasksFor' = MeasNo
    /\ curDur' = 0
    /\ slowest' = 0
    /\ embTries' = 0
    /\ embLine' = "none"
    /\ UNCHANGED <<inputVars, q, runOpts, pc, err, power_seq, flow_seq, Niter,
                   i, handles, clock, measRunTime, arrayVars, cmds, saveVars>>

\* the collect flag alone decides, whether or not there is a handle
CollectsByFlag(k) ==
    CASE k = THERMAL -> runOpts.collectData
      [] k = SPECTRA -> runOpts.collectData
      [] k = OSC     -> runOpts.collectOscMeas
      [] k = EMB     -> runOpts.collectEmbedded

\* the condition under which a sample coroutine calls its driver
\* (lines 67, 94, 205, 133)
Collects(k) ==
    CASE k = THERMAL -> runOpts.collectData
      [] k = SPECTRA -> runOpts.collectData /\ handles["spec"] # None
      [] k = OSC     -> runOpts.collectOscMeas /\ handles["osc"] # None
      [] k = EMB     -> runOpts.collectEmbedded /\ handles["arduinoPI"] # None

\* The event loop runs the ready tasks in the order of their creation.  No
\* sample coroutine contains an await: once started it keeps the thread until
\* it returns, so a task starts only when every earlier one has finished.
MayStart(k) ==
    /\ taskState[k] = "ready"
    /\ \A j \in TaskIds : j < k => Finished(j)

\* a task starts: it returns None at once when its device is not collected,
\* and enters its blocking driver call otherwise
TaskStart(k) ==
    /\ mstate = "waiting"
    /\ MayStart(k)
    /\ IF Collects(k)
       THEN taskState' = [taskState EXCEPT ![k] = "blocked"]
       ELSE taskState' = [taskState EXCEPT ![k] = "done"]
    /\ curDur' = 0
    /\ UNCHANGED <<inputVars, q, runOpts, pc, err, power_seq, flow_seq, Niter,
                   i, handles, mstate, taskResult, tasksFor, slowest, embTries,
                   embLine, clock, measRunTime, arrayVars, cmds, saveVars>>

ReadingOf(k, m) ==
    CASE k = THERMAL -> ThermalReading(m)
      [] k = SPECTRA -> SpectralReading(m, runOpts)
      [] k = OSC     -> OscReading(m, oscChannels)
      [] k = EMB     -> EmbReading(m, "all")

\* thermal_camera.py line 210, q.get(True, 500): the oldest queued frame is
\* taken out; on an empty queue the call waits for the frame the callback
\* puts next (or times out), and the queue is empty again
QueueAfterGet(queue) == IF queue # <<>> THEN Tail(queue) ELSE queue

\* the blocking call of the thermal, spectrometer or oscilloscope sample
\* returns after d time units, with a reading or by raising (the frame queue
\* times out, the driver fails); the exception ends the task
DriverReturn(k) ==
    /\ k # EMB
    /\ taskState[k] = "blocked"
    /\ \E d \in 0..MaxDur, ok \in BOOLEAN :
        /\ clock' = clock + d
        /\ curDur' = curDur + d
        /\ slowest' = Max2(slowest, curDur + d)
        /\ taskState' = [taskState EXCEPT ![k] = IF ok THEN "done" ELSE "failed"]
        /\ taskResult' = [taskResult EXCEPT
                            ![k] = IF ok THEN ReadingOf(k, MeasNo) ELSE None]
    /\ q' = IF k = THERMAL THEN QueueAfterGet(q) ELSE q
    /\ UNCHANGED <<inputVars, runOpts, pc, err, power_seq, flow_seq, Niter,
                   i, handles, mstate, tasksFor, embTries, embLine, measRunTime,
                   arrayVars, cmds, saveVars>>

\* what one readline of async_get_emb can give: a line with a valid checksum
\* that converts ("valid") or whose conversion raises after the time stamp
\* ("partial"), a line with a bad checksum ("invalid"), or an exception of
\* readline, decode or the conversion of the time stamp ("exception")
EmbLines == {"valid", "partial", "invalid", "exception"}
\* the loop is left on any line that was read
EndsLoopUnchecked(line) == line \in {"valid", "partial", "invalid"}
\* lines 153-159: the loop is left on a line with a valid checksum only
EndsLoop(line) == line \in {"valid", "partial"}

\* the loop is given up after MaxRetry lines that did not end it
GivesUpAtLimit(tries) == tries >= MaxRetry
\* lines 147-148: "while run" has no other exit: no count of attempts, no
\* timeout
GivesUp(tries) == FALSE

\* lines 147-182: dev.readline() returns after d time units; a line with a
\* valid checksum ends the loop, a line with a bad checksum or an exception
\* is followed by the next readline
EmbReadline ==
    /\ taskState[EMB] = "blocked"
    /\ \E d \in 0..MaxDur, line \in EmbLines :
        /\ ~EndsLoop(line) => embTries < MaxRetry \/ GivesUp(embTries)
        /\ clock' = clock + d
        /\ curDur' = curDur + d
        /\ slowest' = Max2(slowest, curDur + d)
        /\ embLine' = line
        /\ IF EndsLoop(line)
           THEN /\ taskState' = [taskState EXCEPT ![EMB] = "done"]
                /\ taskResult' = [taskResult EXCEPT ![EMB] =
                      EmbReading(MeasNo, IF line = "valid" THEN "all" ELSE "part")]
                /\ UNCHANGED embTries
           ELSE IF GivesUp(embTries)
           THEN /\ taskState' = [taskState EXCEPT ![EMB] = "done"]
                /\ UNCHANGED <<taskResult, embTries>>
           ELSE /\ embTries' = embTries + 1
                /\ UNCHANGED <<taskState, taskResult>>
    /\ UNCHANGED <<inputVars, q, runOpts, pc, err, power_seq, flow_seq, Niter,
                   i, handles, mstate, tasksFor, measRunTime, arrayVars, cmds,
                   saveVars>>

\* asyncio.wait(tasks, return_when=FIRST_COMPLETED)
WaitDoneFirst == \E k \in TaskIds : Finished(k)

\* asyncio.wait(tasks) waits for ALL_COMPLETED
WaitDone == \A k \in TaskIds : Finished(k)

\* lines 40-46: asyncio.wait returns and async_measure returns tasks, runTime
WaitReturns ==
    /\ mstate = "waiting"
    /\ WaitDone
    /\ mstate' = "returned"
    /\ measRunTime' = clock
    /\ UNCHANGED <<inputVars, q, runOpts, pc, err, power_seq, flow_seq, Niter,
                   i, handles, taskState, taskResult, tasksFor, curDur,
                   slowest, embTries, embLine, clock, arrayVars, cmds, saveVars>>

\* ------------------------------------------ run_open_loop: before the loop
\* The first line, of a straight run of lines, that raises (0: none does).
FirstFailure(S) == IF S = {} THEN 0 ELSE CHOOSE y \in S : \A z \in S : y <= z
\* line raises when cond holds
FailIf(cond, line) == IF cond THEN {line} ELSE {}
\* line L is executed: no earlier line of the run has raised
Reached(fail, L) == fail = 0 \/ L < fail

\* lines 213-218: Task.result() raises the exception of a failed task;
\* thermalCamOut[0] and specOut[0] raise TypeError on None
SizingFailures ==
    FailIf(taskState[THERMAL] = "failed", 213)
    \cup FailIf(taskResult[THERMAL] = None, 214)
    \cup FailIf(taskState[SPECTRA] = "failed", 215)
    \cup FailIf(taskResult[SPECTRA] = None, 216)
    \cup FailIf(taskState[OSC] = "failed", 217)

SizingResults ==
    /\ pc = "sizing"
    /\ mstate = "returned"
    /\ mstate' = "off"
    /\ LET fail == FirstFailure(SizingFailures) IN
        IF fail = 0 THEN pc' = "alloc" /\ UNCHANGED err
                    ELSE pc' = "error" /\ err' = fail
    /\ curDur' = 0 /\ slowest' = 0 /\ measRunTime' = 0 /\ embTries' = 0
    /\ UNCHANGED <<inputVars, q, runOpts, power_seq, flow_seq, Niter, i, handles,
                   taskState, taskResult, tasksFor, embLine, clock,
                   arrayVars, cmds, saveVars>>

\* lines 228-231: raw_img0.shape; lines 236-237: len(specOut[2])
AllocFailures ==
    FailIf(runOpts.saveEntireImage /\ ~HasShape(taskResult[THERMAL].raw_img), 231)
    \cup FailIf(/\ runOpts.saveSpectra
                /\ taskResult[SPECTRA] # None
                /\ taskResult[SPECTRA].wavelengths = None, 237)

\* lines 244, 254, 260: a save flag whose device gave nothing is switched off
\* in the caller's RunOpts object
OptsAfterAlloc(opts, specOut, oscOut, arduinoOut) ==
    [opts EXCEPT
       !.saveSpectra = opts.saveSpectra /\ specOut # None,
       !.saveOscMeas = opts.saveOscMeas /\ oscOut # None,
       !.saveEmbMeas = opts.saveEmbMeas /\ arduinoOut # None]

\* lines 220-260: the containers of the run
Allocate ==
    /\ pc = "alloc"
    /\ LET fail == FirstFailure(AllocFailures)
           specOut == taskResult[SPECTRA]
           oscOut == taskResult[OSC]
           arduinoOut == taskResult[EMB]
           new == OptsAfterAlloc(runOpts, specOut, oscOut, arduinoOut)
       IN
        IF fail # 0
        THEN /\ pc' = "error"
             /\ err' = fail
             /\ UNCHANGED <<runOpts, arrayVars, mmap_opts>>
        ELSE /\ pc' = "loop"
             /\ UNCHANGED err
             /\ runOpts' = new
             /\ bound' = bound
                  \cup (IF runOpts.saveData THEN {"Tsave", "Isave", "badTimes"} ELSE {})
                  \cup (IF runOpts.saveSpatialTemp THEN {"Ts2save", "Ts3save"} ELSE {})
                  \cup (IF runOpts.saveEntireImage
                        THEN {"raw_img_save_files", "mmap_opts", "raw_img_save"} ELSE {})
                  \cup (IF new.saveSpectra
                        THEN {"waveSave", "specSave", "meanShiftSave"} ELSE {})
                  \cup (IF new.saveOscMeas THEN {"oscSave", "n_channels"} ELSE {})
                  \cup (IF new.saveEmbMeas THEN {"ArdSave"} ELSE {})
             /\ Tsave' = IF runOpts.saveData THEN NewArray(Niter) ELSE Tsave
             /\ Isave' = IF runOpts.saveData THEN NewArray(Niter) ELSE Isave
             /\ badTimes' = <<>>
             /\ Ts2save' = IF runOpts.saveSpatialTemp THEN NewArray(Niter) ELSE Ts2save
             /\ Ts3save' = IF runOpts.saveSpatialTemp THEN NewArray(Niter) ELSE Ts3save
             /\ raw_img_save_files' =
                    IF runOpts.saveEntireImage
                    THEN CeilDiv(Niter, N_PER_BAT_FILE) ELSE raw_img_save_files
             /\ raw_img_save' = None
             /\ mmap_opts' = IF runOpts.saveEntireImage
                              THEN [dtype |-> "np.uint8", shape |-> "tuple",
                                    n |-> N_PER_BAT_FILE]
                              ELSE mmap_opts
             /\ specSave' = IF new.saveSpectra THEN NewArray(Niter) ELSE specSave
             /\ meanShiftSave' = IF new.saveSpectra THEN NewArray(Niter)
                                 ELSE meanShiftSave
             /\ waveSave' = waveSave
             /\ n_channels' = IF new.saveOscMeas
                              THEN Cardinality(DOMAIN oscOut.ch_datas) ELSE n_channels
             /\ oscSave' = IF new.saveOscMeas
                           THEN [c \in DOMAIN oscOut.ch_datas |-> NewArray(Niter + 1)]
                           ELSE oscSave
             /\ ArdSave' = IF new.saveEmbMeas THEN NewArray(Niter) ELSE ArdSave
             /\ UNCHANGED <<raw_img, disk>>
    /\ UNCHANGED <<inputVars, q, power_seq, flow_seq, Niter, i, handles, measVars,
                   clock, cmds, exp_data, backup, artifacts, h5files, ol_count>>

\* ------------------------------------------------ run_open_loop: the loop
\* lines 262-264: for i in range(Niter), and startTime = time.time()
LoopHead ==
    /\ pc = "loop"
    /\ IF i + 1 < Niter
       THEN i' = i + 1 /\ clock' = 0 /\ pc' = "tick_measure"
       ELSE pc' = "shutoff" /\ UNCHANGED <<i, clock>>
    /\ UNCHANGED <<inputVars, q, runOpts, err, power_seq, flow_seq, Niter,
                   handles, measVars, arrayVars, cmds, saveVars>>

\* lines 282-284 and 297-300: what is recorded for a device that gave None
TempSentinel == -300
SpecSentinel == -1

\* lines 272-300: the readings of the tick, or their sentinels
TsOfTick(th) == IF th # None THEN th.Ts ELSE TempSentinel
Ts2OfTick(th) == IF th # None THEN th.Ts2 ELSE TempSentinel
Ts3OfTick(th) == IF th # None THEN th.Ts3 ELSE TempSentinel
IntensityOfTick(sp) == IF sp # None THEN sp.totalIntensity ELSE SpecSentinel
SpectrumOfTick(sp) == IF sp # None THEN sp.intensitySpectrum ELSE SpecSentinel
MeanShiftOfTick(sp) == IF sp # None THEN sp.meanShift ELSE SpecSentinel
WavelengthsOfTick(sp) ==
    IF sp # None THEN sp.wavelengths ELSE [tag |-> "scalar", v |-> SpecSentinel]

\* the batch file and the slot that line 311 and lines 315, 318 use for tick t
BatchOf(t) == t \div N_PER_BAT_FILE
SlotOf(t) == t % N_PER_BAT_FILE

\* the lines of 271-337 that can raise: Task.result() of a failed task, the
\* shape of a frame that is no array (or was never bound), a subscript of None
TickFailures(rawNow, rawBound) ==
    FailIf(taskState[THERMAL] = "failed", 272)
    \cup FailIf(taskState[SPECTRA] = "failed", 287)
    \cup FailIf(runOpts.saveEntireImage /\ (~rawBound \/ ~HasShape(rawNow)), 314)
    \cup FailIf(runOpts.saveOscMeas /\ taskState[OSC] = "failed", 328)
    \cup FailIf(runOpts.saveOscMeas /\ n_channels > 0 /\ taskState[OSC] # "failed"
                /\ taskResult[OSC] = None, 331)
    \cup FailIf(taskResult[EMB] = None, 335)

\* lines 271-337: the readings of tick i are folded into the containers
TickRecord ==
    /\ pc = "tick_measure"
    /\ mstate = "returned"
    /\ mstate' = "off"
    /\ LET th == taskResult[THERMAL]
           sp == taskResult[SPECTRA]
           os == taskResult[OSC]
           rawNow == IF th # None THEN th.raw_img ELSE raw_img
           rawBound == th # None \/ "raw_img" \in bound
           fail == FirstFailure(TickFailures(rawNow, rawBound))
           n == BatchOf(i)
           opened == IF runOpts.saveEntireImage /\ SlotOf(i) = 0 /\ Reached(fail, 313)
                     THEN n :> <<>> ELSE <<>>
       IN
        /\ IF fail = 0 THEN pc' = "send" /\ UNCHANGED err
                       ELSE pc' = "error" /\ err' = fail
        /\ raw_img' = IF Reached(fail, 277) THEN rawNow ELSE raw_img
        /\ bound' = IF Reached(fail, 277) /\ th # None
                    THEN bound \cup {"raw_img"} ELSE bound
        /\ Tsave' = IF runOpts.saveData /\ Reached(fail, 304)
                    THEN Put(Tsave, i, TsOfTick(th)) ELSE Tsave
        /\ Isave' = IF runOpts.saveData /\ Reached(fail, 305)
                    THEN Put(Isave, i, IntensityOfTick(sp)) ELSE Isave
        /\ Ts2save' = IF runOpts.saveSpatialTemp /\ Reached(fail, 307)
                      THEN Put(Ts2save, i, Ts2OfTick(th)) ELSE Ts2save
        /\ Ts3save' = IF runOpts.saveSpatialTemp /\ Reached(fail, 308)
                      THEN Put(Ts3save, i, Ts3OfTick(th)) ELSE Ts3save
        /\ raw_img_save' = IF runOpts.saveEntireImage /\ SlotOf(i) = 0
                              /\ Reached(fail, 313)
                           THEN [tag |-> "memmap", file |-> n] ELSE raw_img_save
        /\ disk' = IF runOpts.saveEntireImage /\ Reached(fail, 315)
                   THEN LET d0 == opened @@ disk
                            f == raw_img_save'.file
                        IN (f :> ((SlotOf(i) :> rawNow) @@ d0[f])) @@ d0
                   ELSE opened @@ disk
        /\ waveSave' = IF runOpts.saveSpectra /\ i = 0 /\ Reached(fail, 323)
                       THEN WavelengthsOfTick(sp) ELSE waveSave
        /\ specSave' = IF runOpts.saveSpectra /\ Reached(fail, 324)
                       THEN Put(specSave, i, SpectrumOfTick(sp)) ELSE specSave
        /\ meanShiftSave' = IF runOpts.saveSpectra /\ Reached(fail, 325)
                            THEN Put(meanShiftSave, i, MeanShiftOfTick(sp))
                            ELSE meanShiftSave
        /\ oscSave' = IF runOpts.saveOscMeas /\ Reached(fail, 332)
                      THEN [c \in DOMAIN oscSave |->
                              Put(IF i = 0 THEN Put(oscSave[c], 0, os.t) ELSE oscSave[c],
                                  i + 1, os.ch_datas[c])]
                      ELSE oscSave
        /\ ArdSave' = IF runOpts.saveEmbMeas /\ Reached(fail, 337)
                      THEN Put(ArdSave, i, taskResult[EMB].line) ELSE ArdSave
    /\ curDur' = 0 /\ slowest' = 0 /\ measRunTime' = 0 /\ embTries' = 0
    /\ UNCHANGED <<inputVars, q, runOpts, power_seq, flow_seq, Niter, i, handles,
                   taskState, taskResult, tasksFor, embLine, clock,
                   badTimes, n_channels, raw_img_save_files, cmds, saveVars>>

\* utils/arduino.py: the setpoint command and the raw command (power, flow,
\* duty cycle), as the link carries them
ControlledInputs(P, flow) ==
    [cmd |-> "controlled", P |-> P, q |-> flow, duty |-> 0]
Inputs(P, flow, duty) == [cmd |-> "inputs", P |-> P, q |-> flow, duty |-> duty]

\* the inputs of tick i are left for later and the loop goes on
SendInputsDeferred ==
    /\ pc = "send"
    /\ pc' = "pause"
    /\ UNCHANGED <<inputVars, q, runOpts, err, power_seq, flow_seq, Niter, i,
                   handles, measVars, clock, arrayVars, cmds, saveVars>>

\* lines 343-347: the inputs of tick i are sent; the call takes d time units
SendInputs ==
    /\ pc = "send"
    /\ \E d \in 0..MaxDur : clock' = clock + d
    /\ cmds' = Append(cmds, ControlledInputs(power_seq[i + 1], flow_seq[i + 1]))
    /\ pc' = "pause"
    /\ UNCHANGED <<inputVars, q, runOpts, err, power_seq, flow_seq, Niter, i,
                   handles, measVars, arrayVars, saveVars>>

\* the whole period, whatever the tick has taken
PauseTimeWholePeriod(opts, runTime) == opts.tSampling

\* lines 350-354: runTime = endTime - startTime, pauseTime = tSampling - runTime
PauseTime(opts, runTime) == opts.tSampling - runTime
\* if pauseTime >= 0
SleepsOnTime(opts, runTime) == PauseTime(opts, runTime) >= 0
\* line 355: if pauseTime > 0
Sleeps(opts, runTime) == PauseTime(opts, runTime) > 0

\* lines 349-362: sleep for the rest of the period, or note the tick in
\* badTimes (only when saveData is on)
Pause ==
    /\ pc = "pause"
    /\ LET runTime == clock IN
        IF Sleeps(runOpts, runTime)
        THEN /\ clock' = clock + PauseTime(runOpts, runTime)
             /\ UNCHANGED badTimes
        ELSE /\ badTimes' = IF runOpts.saveData THEN Append(badTimes, i) ELSE badTimes
             /\ UNCHANGED clock
    /\ pc' = "loop"
    /\ UNCHANGED <<inputVars, q, runOpts, err, power_seq, flow_seq, Niter, i,
                   handles, measVars, bound, Tsave, Isave, Ts2save, Ts3save,
                   specSave, meanShiftSave, waveSave, oscSave, n_channels,
                   ArdSave, raw_img, raw_img_save_files, raw_img_save, disk,
                   cmds, saveVars>>

\* the last batch file is released and no command is sent
ShutOffSkipped ==
    /\ pc = "shutoff"
    /\ raw_img_save' = None
    /\ bound' = bound \ {"raw_img_save"}
    /\ pc' = "assemble"
    /\ UNCHANGED <<inputVars, q, runOpts, err, power_seq, flow_seq, Niter, i,
                   handles, measVars, clock, Tsave, Isave, badTimes, Ts2save,
                   Ts3save, specSave, meanShiftSave, waveSave, oscSave,
                   n_channels, ArdSave, raw_img, raw_img_save_files, disk,
                   cmds, saveVars>>

\* lines 364-368: the jet is shut off and the last batch file is released
ShutOff ==
    /\ pc = "shutoff"
    /\ cmds' = Append(cmds, Inputs(0, 0, 100))
    /\ raw_img_save' = None
    /\ bound' = bound \ {"raw_img_save"}
    /\ pc' = "assemble"
    /\ UNCHANGED <<inputVars, q, runOpts, err, power_seq, flow_seq, Niter, i,
                   handles, measVars, clock, Tsave, Isave, badTimes, Ts2save,
                   Ts3save, specSave, meanShiftSave, waveSave, oscSave,
                   n_channels, ArdSave, raw_img, raw_img_save_files, disk,
                   saveVars>>

\* --------------------------------------- run_open_loop: after the loop
\* lines 373-396: the local names the run record is built from; a name that
\* was never bound raises NameError
AssembleFailures ==
    FailIf("Tsave" \notin bound, 373)
    \cup FailIf("Isave" \notin bound, 374)
    \cup FailIf("badTimes" \notin bound, 377)
    \cup FailIf(runOpts.collectSpatialTemp /\ "Ts2save" \notin bound, 379)
    \cup FailIf(runOpts.collectEntireSpectra /\ "waveSave" \notin bound, 386)
    \cup FailIf(runOpts.collectOscMeas /\ "oscSave" \notin bound, 393)
    \cup FailIf(runOpts.collectEmbedded /\ "ArdSave" \notin bound, 396)

\* lines 370-399: the run record; power_seq and flow_seq go in as they came
ExpDataOf(opts) ==
    ("Niter" :> Niter) @@ ("Tsave" :> Tsave) @@ ("Isave" :> Isave)
    @@ ("Psave" :> ArrayOf(power_seq)) @@ ("qSave" :> ArrayOf(flow_seq))
    @@ ("badTimes" :> badTimes)
    @@ (IF opts.collectSpatialTemp
        THEN ("Ts2save" :> Ts2save) @@ ("Ts3save" :> Ts3save) ELSE <<>>)
    @@ (IF opts.saveEntireImage
        THEN ("raw_img_save_files" :> raw_img_save_files)
             @@ ("mmap_opts" :> [mmap_opts EXCEPT !.dtype = "UINT8"])
        ELSE <<>>)
    @@ (IF opts.collectEntireSpectra
        THEN ("waveSave" :> waveSave) @@ ("specSave" :> specSave)
             @@ ("meanShiftSave" :> meanShiftSave)
        ELSE <<>>)
    @@ (IF opts.collectOscMeas
        THEN "oscSave" :> [c \in DOMAIN oscSave |-> ToList(oscSave[c])] ELSE <<>>)
    @@ (IF opts.collectEmbedded THEN "ArdSave" :> ArdSave ELSE <<>>)

\* lines 370-407
Assemble ==
    /\ pc = "assemble"
    /\ LET fail == FirstFailure(AssembleFailures) IN
        IF fail # 0
        THEN pc' = "error" /\ err' = fail /\ UNCHANGED exp_data
        ELSE pc' = "backup" /\ exp_data' = ExpDataOf(runOpts) /\ UNCHANGED err
    /\ UNCHANGED <<inputVars, q, runOpts, power_seq, flow_seq, Niter, i, handles,
                   measVars, clock, arrayVars, cmds, mmap_opts, backup,
                   artifacts, h5files, ol_count>>

\* an encoder that writes every ndarray as the empty list
JsonValueEmpty(key, v) ==
    CASE key \in {"Tsave", "Isave", "Psave", "qSave", "Ts2save", "Ts3save",
                  "specSave", "meanShiftSave", "ArdSave"} -> ToList(NewArray(0))
      [] OTHER -> v

\* CustomJSONEncoder: an ndarray is written as a list; json writes a tuple
\* as a list too
JsonValue(key, v) ==
    CASE key \in {"Tsave", "Isave", "Psave", "qSave", "Ts2save", "Ts3save",
                  "specSave", "meanShiftSave", "ArdSave"} -> ToList(v)
      [] key = "mmap_opts" -> [v EXCEPT !.shape = "list"]
      [] key = "waveSave" -> IF v.tag = "vector" THEN [v EXCEPT !.tag = "list"] ELSE v
      [] OTHER -> v
JsonOf(d) == [key \in DOMAIN d |-> JsonValue(key, d[key])]

\* the backup copy is left out
BackupSkipped ==
    /\ pc = "backup"
    /\ pc' = "save_data"
    /\ UNCHANGED <<inputVars, q, runOpts, err, power_seq, flow_seq, Niter, i,
                   handles, measVars, clock, arrayVars, cmds, mmap_opts,
                   exp_data, backup, artifacts, h5files, ol_count>>

\* lines 406-414: the backup copy
Backup ==
    /\ pc = "backup"
    /\ backup' = JsonOf(exp_data)
    /\ pc' = "save_data"
    /\ UNCHANGED <<inputVars, q, runOpts, err, power_seq, flow_seq, Niter, i,
                   handles, measVars, clock, arrayVars, cmds, mmap_opts,
                   exp_data, artifacts, h5files, ol_count>>

\* ------------------------------------------------------- exp_data_saver
HasKey(d, key) == key \in DOMAIN d

saverFrame == <<inputVars, q, power_seq, flow_seq, Niter, i, handles, measVars,
                clock, arrayVars, cmds, mmap_opts, backup, ol_count>>

\* one artifact kind of exp_data_saver: skipped when its flag is off, ended
\* by the exception of line fail, or written
SaverStep(at, flag, fail, files, next) ==
    /\ pc = at
    /\ IF ~flag
       THEN pc' = next /\ UNCHANGED <<err, artifacts>>
       ELSE IF fail # 0
       THEN pc' = "error" /\ err' = fail /\ UNCHANGED artifacts
       ELSE pc' = next /\ artifacts' = files @@ artifacts /\ UNCHANGED err
    /\ UNCHANGED <<saverFrame, runOpts, exp_data, h5files>>

\* np.hstack of columns needs columns of one length
SameLength(cols) == \A a \in cols, b \in cols : a.len = b.len
Rows(cols) == [k \in 0..(cols[1].len - 1) |->
                 [c \in DOMAIN cols |-> IF k \in Written(cols[c])
                                        THEN cols[c].at[k] ELSE 0]]

\* lines 445-475: inputOutputData.csv and badMeasurementTimes.csv
SaveData ==
    LET cols == <<NpArray(exp_data["Tsave"]), NpArray(exp_data["Isave"]),
                  NpArray(exp_data["Psave"]), NpArray(exp_data["qSave"])>>
        fail == FirstFailure(FailIf(~SameLength({cols[c] : c \in 1..4}), 456))
        files == ("inputOutputData.csv" :> Rows(cols))
                 @@ (IF exp_data["badTimes"] # <<>>
                     THEN "badMeasurementTimes.csv" :> exp_data["badTimes"]
                     ELSE <<>>)
    IN SaverStep("save_data", runOpts.saveData, fail, files, "save_spatial")

\* lines 477-495: dataCollectionSpatialTemps.csv
SaveSpatialTemp ==
    LET fail == FirstFailure(FailIf(~HasKey(exp_data, "Ts2save"), 481))
        cols == <<NpArray(exp_data["Tsave"]), NpArray(exp_data["Ts2save"]),
                  NpArray(exp_data["Ts3save"])>>
        files == "dataCollectionSpatialTemps.csv" :> Rows(cols)
    IN SaverStep("save_spatial", runOpts.saveSpatialTemp, fail, files, "save_spectra")

\* np.array of a list of numbers is the vector again
AsVector(v) == IF v.tag = "list" THEN [v EXCEPT !.tag = "vector"] ELSE v

\* lines 497-517: dataCollectionSpectra.npz
SaveSpectra ==
    LET fail == FirstFailure(FailIf(~HasKey(exp_data, "waveSave"), 500))
        files == "dataCollectionSpectra.npz" :>
                    [wavelengths |-> AsVector(exp_data["waveSave"]),
                     intensities |-> NpArray(exp_data["specSave"]),
                     meanShifts |-> NpArray(exp_data["meanShiftSave"])]
    IN SaverStep("save_spectra", runOpts.saveSpectra, fail, files, "save_osc")

\* lines 531-558: the keyword arguments of np.savez_compressed for k channels;
\* with four channels line 555 reads oscSave[4]
OscArchive(o) ==
    LET k == Cardinality(DOMAIN o) IN
    CASE k = 1 -> ("chA" :> o[0])
      [] k = 2 -> ("chA" :> o[0]) @@ ("chB" :> o[1])
      [] k = 3 -> ("chA" :> o[0]) @@ ("chB" :> o[1]) @@ ("chC" :> o[2])
      [] k = 4 -> ("chA" :> o[0]) @@ ("chB" :> o[1]) @@ ("chC" :> o[2])
                  @@ ("chD" :> o[4])
      [] OTHER -> <<>>

\* lines 519-560: dataCollectionOscilloscope.npz
SaveOscMeas ==
    LET present == HasKey(exp_data, "oscSave")
        k == IF present THEN Cardinality(DOMAIN exp_data["oscSave"]) ELSE 0
        fail == FirstFailure(FailIf(~present, 522) \cup FailIf(k = 4, 555))
        o == [c \in DOMAIN exp_data["oscSave"] |-> NpArray(exp_data["oscSave"][c])]
        files == IF k \in 1..3 THEN "dataCollectionOscilloscope.npz" :> OscArchive(o)
                 ELSE <<>>
    IN SaverStep("save_osc", runOpts.saveOscMeas, fail, files, "save_emb")

\* lines 562-576: dataCollectionEmbedded.csv
SaveEmbMeas ==
    LET fail == FirstFailure(FailIf(~HasKey(exp_data, "ArdSave"), 565))
        files == "dataCollectionEmbedded.csv" :> NpArray(exp_data["ArdSave"])
    IN SaverStep("save_emb", runOpts.saveEmbMeas, fail, files, "save_img")

\* a slot of a batch file that no tick wrote
Blank == [tag |-> "blank"]
ReadSlot(file, slot) == IF slot \in DOMAIN file THEN file[slot] ELSE Blank

\* line 604: the frame of slot i of batch file n is converted
Converts(n, slot, niter) == (n * N_PER_BAT_FILE + slot) <= niter

\* lines 599-614: the files written for batch file n, slot by slot
RECURSIVE ReplaySlots(_, _, _, _, _)
ReplaySlots(file, n, slot, n_images, niter) ==
    IF slot >= n_images THEN <<>>
    ELSE (IF Converts(n, slot, niter)
          THEN <<[iter |-> n * N_PER_BAT_FILE + slot, image |-> ReadSlot(file, slot)]>>
          ELSE <<>>)
         \o ReplaySlots(file, n, slot + 1, n_images, niter)

\* lines 599-614: all batch files in the order of raw_img_save_files
RECURSIVE ReplayFiles(_, _, _, _, _)
ReplayFiles(files, n, nfiles, n_images, niter) ==
    IF n >= nfiles THEN <<>>
    ELSE ReplaySlots(files[n], n, 0, n_images, niter)
         \o ReplayFiles(files, n + 1, nfiles, n_images, niter)

\* lines 578-616: the frames of the batch files become one file each
SaveEntireImage ==
    /\ pc = "save_img"
    /\ IF ~runOpts.saveEntireImage
       THEN pc' = "saved" /\ UNCHANGED <<err, h5files, exp_data>>
       ELSE IF ~HasKey(exp_data, "raw_img_save_files")
       THEN pc' = "error" /\ err' = 586 /\ UNCHANGED <<h5files, exp_data>>
       ELSE IF \E n \in 0..(exp_data["raw_img_save_files"] - 1) : n \notin DOMAIN disk
       THEN pc' = "error" /\ err' = 600 /\ UNCHANGED <<h5files, exp_data>>
       ELSE /\ h5files' = ReplayFiles(disk, 0, exp_data["raw_img_save_files"],
                                      exp_data["mmap_opts"].n, exp_data["Niter"])
            /\ exp_data' = [exp_data EXCEPT !["mmap_opts"] =
                               [@ EXCEPT !.dtype = "np.uint8", !.shape = "tuple"]]
            /\ pc' = "saved"
            /\ UNCHANGED err
    /\ UNCHANGED <<saverFrame, runOpts, artifacts>>

\* lines 421-424: exp_data_saver has returned
Return ==
    /\ pc = "saved"
    /\ ol_count' = ol_count + 1
    /\ pc' = "done"
    /\ UNCHANGED <<inputVars, q, runOpts, err, power_seq, flow_seq, Niter, i,
                   handles, measVars, clock, arrayVars, cmds, mmap_opts,
                   exp_data, backup, artifacts, h5files>>

\* ----------------------------------------------- resave_from_backup.py
\* lines 18-30: the RunOpts of the script
ResaveRunOpts ==
    [DefaultRunOpts EXCEPT !.collectSpatialTemp = FALSE, !.saveSpatialTemp = FALSE]

\* the frame that tick t left in its batch file
FrameOf(t) == [tag |-> "array", data |-> t]
\* the batch files a run of niter ticks leaves behind (lines 309-319 of
\* experiments.py): tick t in slot SlotOf(t) of file BatchOf(t)
FramesOnDisk(niter) ==
    [n \in 0..(CeilDiv(niter, N_PER_BAT_FILE) - 1) |->
        [slot \in {SlotOf(t) : t \in {u \in 0..(niter - 1) : BatchOf(u) = n}} |->
            FrameOf(n * N_PER_BAT_FILE + slot)]]

\* the record such a run leaves, as lines 370-399 of experiments.py build it
RecordOfRun(niter, nch, bad) ==
    ("Niter" :> niter)
    @@ ("Tsave" :> ArrayOf([t \in 1..niter |-> TsOf(t - 1)]))
    @@ ("Isave" :> ArrayOf([t \in 1..niter |-> IntensityOf(t - 1)]))
    @@ ("Psave" :> ArrayOf(PowerSeqOf(niter)))
    @@ ("qSave" :> ArrayOf(FlowSeqOf(niter)))
    @@ ("badTimes" :> bad)
    @@ ("raw_img_save_files" :> CeilDiv(niter, N_PER_BAT_FILE))
    @@ ("mmap_opts" :> [dtype |-> "UINT8", shape |-> "tuple", n |-> N_PER_BAT_FILE])
    @@ ("waveSave" :> [tag |-> "array", v |-> 0])
    @@ ("specSave" :> ArrayOf([t \in 1..niter |-> SpectrumOf(t - 1)]))
    @@ ("meanShiftSave" :> ArrayOf([t \in 1..niter |-> MeanShiftOf(t - 1)]))
    @@ ("oscSave" :> [c \in 0..(nch - 1) |->
                        ToList(ArrayOf([t \in 1..(niter + 1) |-> OscDataOf(t - 2, c)]))])
    @@ ("ArdSave" :> ArrayOf([t \in 1..niter |-> TimeStampOf(t - 1)]))

\* lines 32-37: the backup is loaded and handed to exp_data_saver
InitResave ==
    /\ power_arg = None /\ flow_arg = None /\ devices = None
    /\ oscChannels \in 1..MaxChannels
    /\ runOpts = ResaveRunOpts
    /\ \E niter \in 0..MaxSeq, bad \in {<<>>, <<0>>} :
        /\ bad # <<>> => niter > 0
        /\ exp_data = JsonOf(RecordOfRun(niter, oscChannels, bad))
        /\ disk = FramesOnDisk(niter)
    /\ pc = "save_data"
    /\ q = <<>>
    /\ Fresh

\* ------------------------------------------------------------ the run
AllArgs == {None} \cup {Given(PowerSeqOf(n)) : n \in 0..MaxSeq}
AllFlowArgs == {None} \cup {Given(FlowSeqOf(n)) : n \in 0..MaxSeq}
AllDevices == {None} \cup {[tag |-> "dict", keys |-> K] : K \in SUBSET DeviceKeys}

\* RunOpts objects that differ from base in the flags of F
OptsFrom(base, F) ==
    {[f \in DOMAIN base |-> IF f \in S THEN ~base[f] ELSE base[f]] : S \in SUBSET F}
\* RunOpts objects that differ from the default in the flags of F
OptsVarying(F) == OptsFrom(DefaultRunOpts, F)

Init == InitWith(AllArgs, AllFlowArgs, {[tag |-> "dict", keys |-> DeviceKeys]},
                 {1}, OptsVarying({"collectData", "saveData", "saveEntireImage"}))

\* the steps of run_open_loop; the frame queue starts empty and the camera
\* thread is shown only in NextCamera: here every thermal sample waits on an
\* empty queue for the frame that comes next
Next ==
    \/ CheckInputs
    \/ UnpackDevices
    \/ CreateTasks
    \/ \E k \in TaskIds : TaskStart(k)
    \/ \E k \in TaskIds : DriverReturn(k)
    \/ EmbReadline
    \/ WaitReturns
    \/ SizingResults
    \/ Allocate
    \/ LoopHead
    \/ TickRecord
    \/ SendInputs
    \/ Pause
    \/ ShutOff
    \/ Assemble
    \/ Backup
    \/ SaveData
    \/ SaveSpatialTemp
    \/ SaveSpectra
    \/ SaveOscMeas
    \/ SaveEmbMeas
    \/ SaveEntireImage
    \/ Return

Spec == Init /\ [][Next]_vars

\* runs that do not save frames, with any device registry: none, or a dict
\* with any of the four keys, and with devices switched off in the options
InitDevices ==
    InitWith({Given(PowerSeqOf(n)) : n \in {0, MaxSeq - 1}},
             {Given(FlowSeqOf(MaxSeq - 1))}, AllDevices, {1},
             OptsFrom([DefaultRunOpts EXCEPT !.saveEntireImage = FALSE],
                      {"collectData", "collectOscMeas", "collectEmbedded"}))

SpecDevices == InitDevices /\ [][Next]_vars

\* resave_from_backup.py: exp_data_saver alone, on a loaded backup
NextResave ==
    \/ SaveData
    \/ SaveSpatialTemp
    \/ SaveSpectra
    \/ SaveOscMeas
    \/ SaveEmbMeas
    \/ SaveEntireImage

SpecResave == InitResave /\ [][NextResave]_vars

\* resave_from_backup.py lines 32-37 after a run: the script, which has no
\* input sequences and no devices, loads the backup the run left and hands
\* it to exp_data_saver with the run options of the run; the files the run
\* wrote are still in the save directory, err still names the line at which
\* the run ended
LoadBackup ==
    /\ pc \in {"done", "error"}
    /\ devices # None
    /\ backup # <<>>
    /\ exp_data' = backup
    /\ power_arg' = None
    /\ flow_arg' = None
    /\ devices' = None
    /\ pc' = "save_data"
    /\ UNCHANGED <<oscChannels, runOpts, err, power_seq, flow_seq, Niter, i,
                   handles, measVars, clock, arrayVars, cmds, mmap_opts, backup,
                   artifacts, h5files, ol_count, q>>

\* runs that do not save frames, with one or four oscilloscope channels and
\* input sequences of equal or of different lengths
InitRerun ==
    InitWith({Given(PowerSeqOf(MaxSeq - 1))},
             {Given(FlowSeqOf(n)) : n \in {MaxSeq - 1, MaxSeq}},
             {[tag |-> "dict", keys |-> DeviceKeys]}, {1, 4},
             OptsFrom([DefaultRunOpts EXCEPT !.saveEntireImage = FALSE],
                      {"collectSpatialTemp", "saveOscMeas", "saveEmbMeas"}))

\* a run, and then the script on the backup of the run
NextRerun ==
    \/ CheckInputs
    \/ UnpackDevices
    \/ CreateTasks
    \/ \E k \in TaskIds : TaskStart(k)
    \/ \E k \in TaskIds : DriverReturn(k)
    \/ EmbReadline
    \/ WaitReturns
    \/ SizingResults
    \/ Allocate
    \/ LoopHead
    \/ TickRecord
    \/ SendInputs
    \/ Pause
    \/ ShutOff
    \/ Assemble
    \/ Backup
    \/ SaveData
    \/ SaveSpatialTemp
    \/ SaveSpectra
    \/ SaveOscMeas
    \/ SaveEmbMeas
    \/ SaveEntireImage
    \/ devices # None /\ Return
    \/ LoadBackup

SpecRerun == InitRerun /\ [][NextRerun]_vars

\* thermal_camera.py lines 23-42: the camera thread hands a frame to the
\* callback, which queues it unless the queue is full (a frame that comes to
\* a full queue, or has the wrong size, is dropped and changes nothing)
py_frame_callback ==
    /\ Len(q) < BUF_SIZE
    /\ q' = Append(q, Len(cmds))
    /\ UNCHANGED <<inputVars, runOpts, pc, err, power_seq, flow_seq, Niter, i,
                   handles, measVars, clock, arrayVars, cmds, saveVars>>

\* a run of MaxSeq - 1 ticks with all devices that does not save frames
InitCamera ==
    InitWith({Given(PowerSeqOf(MaxSeq - 1))}, {Given(FlowSeqOf(MaxSeq - 1))},
             {[tag |-> "dict", keys |-> DeviceKeys]}, {1},
             {[DefaultRunOpts EXCEPT !.saveEntireImage = FALSE]})

\* the run, and the camera thread that calls py_frame_callback at any time
NextCamera ==
    \/ CheckInputs
    \/ UnpackDevices
    \/ CreateTasks
    \/ \E k \in TaskIds : TaskStart(k)
    \/ \E k \in TaskIds : DriverReturn(k)
    \/ EmbReadline
    \/ WaitReturns
    \/ SizingResults
    \/ Allocate
    \/ LoopHead
    \/ TickRecord
    \/ SendInputs
    \/ Pause
    \/ ShutOff
    \/ Assemble
    \/ Backup
    \/ SaveData
    \/ SaveSpatialTemp
    \/ SaveSpectra
    \/ SaveOscMeas
    \/ SaveEmbMeas
    \/ SaveEntireImage
    \/ Return
    \/ py_frame_callback

SpecCamera == InitCamera /\ [][NextCamera]_vars

\* ============================================================ properties
\* the step that sends the inputs of a tick to the Arduino
SendStep == Len(cmds') = Len(cmds) + 1 /\ cmds'[Len(cmds')].cmd = "controlled"
\* the step that ends a tick (lines 349-362)
PauseStep == pc = "pause" /\ pc' = "loop"
Count(seq, x) == Cardinality({k \in DOMAIN seq : seq[k] = x})
StrictlyIncreasing(seq) == \A a, b \in DOMAIN seq : a < b => seq[a] < seq[b]
\* the run ended by an exception of a driver
DriverFault == err \in {213, 215, 217, 272, 287, 328}
\* the run is over and no driver raised
RunOver == pc \in {"done", "error"} /\ ~DriverFault

C2_TickOrdering ==
    /\ pc = "tick_measure" => Len(cmds) = i
    /\ pc = "send" => Len(cmds) = i /\ tasksFor = i /\ mstate = "off"
    /\ pc \in {"pause", "loop"} => Len(cmds) = i + 1
    /\ \A k \in DOMAIN cmds : cmds[k].cmd = "controlled" => cmds[k].P = power_seq[k]
\* the second tick samples when the inputs of the first have been sent
C2_Witness ==
    /\ pc = "tick_measure"
    /\ i = 1
    /\ mstate = "waiting"
    /\ Len(cmds) = 1

\* C3: the fan-out of a tick lasts as long as its slowest device, not as long
\* as the devices together.
C3_FanOutAsSlowest ==
    (pc = "tick_measure" /\ mstate = "returned") => measRunTime = slowest

\* C4: in the run record the series Tsave, Isave, Psave and qSave all have
\* Niter entries.
C4_SeriesLengths ==
    exp_data # <<>> =>
        \A key \in {"Tsave", "Isave", "Psave", "qSave"} : exp_data[key].len = Niter

\* C5: Niter is the length of the shorter input sequence, and the loop runs
\* the ticks 0, 1, ..., Niter-1, each once and in this order.
C5_IterationCount ==
    /\ [](pc \notin {"entry", "quit"} =>
            /\ Niter = Min2(Len(power_seq), Len(flow_seq))
            /\ i >= -1 /\ i < Max2(Niter, 0)
            /\ (pc \in {"shutoff", "assemble", "backup"} => i = Niter - 1))
    /\ [][i' # i => i' = i + 1 /\ pc = "loop" /\ pc' = "tick_measure"]_vars
\* the loop has ended for sequences of different lengths
C5_Witness ==
    /\ pc = "shutoff"
    /\ Len(power_seq) > Len(flow_seq)
    /\ Niter = 2
    /\ Len(cmds) = 2

C7_FramePlacement ==
    (RunOver /\ runOpts.saveEntireImage /\ runOpts.collectData) =>
        \A t \in 0..(Niter - 1) :
            /\ BatchOf(t) \in DOMAIN disk
            /\ SlotOf(t) \in DOMAIN disk[BatchOf(t)]
            /\ disk[BatchOf(t)][SlotOf(t)] = ThermalReading(t).raw_img

\* C8: the conversion of the batch files writes one file per frame of the
\* run, iter0 .. iter(Niter-1), and none for an empty slot.
C8_ReplayStopsAtFrameCount ==
    (pc = "saved" /\ runOpts.saveEntireImage) =>
        /\ Len(h5files) = exp_data["Niter"]
        /\ \A k \in DOMAIN h5files :
              h5files[k] = [iter |-> k - 1, image |-> FrameOf(k - 1)]

\* C9: when a run that saves frames is over there are ceil(Niter / N) batch
\* files, each with N frames but the last, which holds the rest.
C9_BatchCount ==
    (RunOver /\ runOpts.saveEntireImage /\ runOpts.collectData) =>
        /\ DOMAIN disk = 0..(CeilDiv(Niter, N_PER_BAT_FILE) - 1)
        /\ \A n \in DOMAIN disk :
              Cardinality(DOMAIN disk[n]) =
                  Min2(N_PER_BAT_FILE, Niter - n * N_PER_BAT_FILE)

\* C10: when a run without thermal and spectral samples is over, every tick
\* has the temperature -300 and the intensity -1 recorded.
C10_Sentinels ==
    (RunOver /\ runOpts.saveData /\ ~runOpts.collectData) =>
        \A t \in 0..(Niter - 1) :
            /\ t \in Written(Tsave) /\ Tsave.at[t] = TempSentinel
            /\ t \in Written(Isave) /\ Isave.at[t] = SpecSentinel

\* the sizing measurement has been made and its results taken
SizingTaken == pc \notin {"entry", "quit", "unpack", "sizing"} /\ err # 178 /\ ~DriverFault
\* the save flags of the artifact kinds that come from device k
SaveFlagsOf(k) ==
    CASE k = THERMAL -> {"saveSpatialTemp", "saveEntireImage"}
      [] k = SPECTRA -> {"saveSpectra"}
      [] k = OSC     -> {"saveOscMeas"}
      [] k = EMB     -> {"saveEmbMeas"}

\* C11: once the sizing measurement has been taken, every save flag that
\* belongs to a device whose sample is None is off.
C11_AutoDisable ==
    SizingTaken =>
        \A k \in TaskIds : ~Collects(k) => \A f \in SaveFlagsOf(k) : ~runOpts[f]

\* C12: a run with a device registry and input sequences of one length, in
\* which some device gives None in every sample, is not ended by an
\* exception: it sends the inputs of all Niter ticks and returns; without
\* spectral samples the recorded intensity is -1 in every tick and no
\* spectral archive is written.
C12_UnavailableRecoverable ==
    (/\ RunOver
     /\ devices # None
     /\ Len(power_seq) = Len(flow_seq)
     /\ \E k \in TaskIds : ~Collects(k))
    => /\ pc = "done"
       /\ Len(cmds) = Niter + 1
       /\ ~Collects(SPECTRA) =>
             /\ \A t \in 0..(Niter - 1) : Isave.at[t] = SpecSentinel
             /\ "dataCollectionSpectra.npz" \notin DOMAIN artifacts

ChannelKeys == <<"chA", "chB", "chC", "chD">>
\* C13: when exp_data_saver is past the oscilloscope archive, a record with
\* k <= 4 channels has given an archive with exactly the first k keys of
\* chA..chD, key number c holding channel number c; a record with more
\* channels has given no archive.
C13_OscArchiveKeys ==
    (pc \in {"save_emb", "save_img", "saved", "error"} /\ runOpts.saveOscMeas) =>
        LET o == exp_data["oscSave"]
            k == Cardinality(DOMAIN o)
            name == "dataCollectionOscilloscope.npz"
        IN IF k <= 4
           THEN /\ name \in DOMAIN artifacts
                /\ DOMAIN artifacts[name] = {ChannelKeys[c] : c \in 1..k}
                /\ \A c \in 1..k : artifacts[name][ChannelKeys[c]] = NpArray(o[c - 1])
           ELSE name \notin DOMAIN artifacts

\* the line of exp_data_saver at which each kind begins
StageLine == <<445, 477, 497, 519, 562, 578>>
EnabledAt(n) ==
    CASE n = 1 -> runOpts.saveData
      [] n = 2 -> runOpts.saveSpatialTemp
      [] n = 3 -> runOpts.saveSpectra
      [] n = 4 -> runOpts.saveOscMeas
      [] n = 5 -> runOpts.saveEmbMeas
      [] n = 6 -> runOpts.saveEntireImage
\* kind n has been attempted in an execution of the saver that ended at
\* line err: its first line lies before the line that raised
Attempted(n) == pc = "saved" \/ (pc = "error" /\ StageLine[n] <= err)

\* C14: when exp_data_saver has ended, by returning or by an exception of
\* one artifact kind, every kind that is switched on has been attempted.
C14_PersistenceIsolation ==
    (pc = "saved" \/ (pc = "error" /\ err >= 445)) =>
        \A n \in 1..6 : EnabledAt(n) => Attempted(n)

\* C15: whenever exp_data_saver has been entered, and whenever an artifact
\* exists, the backup has been written, and it holds every field of the run
\* record.
C15_BackupFirst ==
    (\/ pc \in {"save_data", "save_spatial", "save_spectra", "save_osc",
                "save_emb", "save_img", "saved", "done"}
     \/ artifacts # <<>>
     \/ h5files # <<>>)
    => /\ backup # <<>>
       /\ DOMAIN backup = DOMAIN exp_data
       /\ backup["Niter"] = Niter
       /\ backup["Tsave"] = ToList(Tsave)
       /\ backup["Psave"] = ToList(ArrayOf(power_seq))
\* the first artifact of a run of two ticks has been written
C15_Witness ==
    /\ pc = "save_spatial"
    /\ "inputOutputData.csv" \in DOMAIN artifacts
    /\ Niter = 2
    /\ backup # <<>>

\* C16: async_get_emb waits for a line from its start and again after every
\* line with a bad checksum (and after every exception), without a result;
\* it has a result only when the last line it read had a valid checksum.
C16_TelemetryProtocol ==
    /\ taskState[EMB] = "blocked" => embLine \in {"none", "invalid", "exception"}
    /\ embLine \in {"invalid", "exception"} =>
          taskState[EMB] = "blocked" /\ taskResult[EMB] = None
    /\ taskResult[EMB] # None =>
          taskState[EMB] = "done" /\ embLine \in {"valid", "partial"}
\* a reading has been returned from a valid line read after a discarded one
C16_Witness ==
    /\ taskState[EMB] = "done"
    /\ embLine = "valid"
    /\ embTries = 1
    /\ taskResult[EMB] = EmbReading(0, "all")

\* C17: while async_get_emb waits for a line the measurement has not
\* returned and the inputs of the tick have not been sent, whatever the
\* number of lines read; the wait ends only with a reading, never with None.
C17_UnboundedRetry ==
    /\ [](taskState[EMB] = "blocked" =>
            /\ mstate = "waiting"
            /\ embTries \in 0..MaxRetry
            /\ pc = "tick_measure" => Len(cmds) = i)
    /\ [][(taskState[EMB] = "blocked" /\ taskState'[EMB] # "blocked") =>
            (taskState'[EMB] = "done" /\ taskResult'[EMB] # None)]_vars
\* the sample of a tick still waits after MaxRetry discarded lines
C17_Witness ==
    /\ pc = "tick_measure"
    /\ taskState[EMB] = "blocked"
    /\ embTries = MaxRetry
    /\ embLine \in {"invalid", "exception"}
    /\ Len(cmds) = i

\* no registry was given, or one of the four handles is not in it
MissingHandle == devices = None \/ devices.keys # DeviceKeys

\* C19: in a run that lacks a device handle no tick is sampled and no inputs
\* of a tick are sent to the Arduino.
C19_MissingHandleFatal ==
    MissingHandle =>
        /\ ~(tasksFor >= 0 /\ mstate = "returned")
        /\ \A k \in DOMAIN cmds : cmds[k].cmd # "controlled"

\* C20: a run that collects its data and in which no driver call raises is
\* not ended by an exception; it never begins a tick with index >= Niter,
\* and when it returns it has run Niter ticks and sent the shut-off.
C20_BoundedRun ==
    /\ i < Max2(Niter, 0)
    /\ (pc = "error" /\ runOpts.collectData) => DriverFault
    /\ pc = "done" =>
          /\ i = Niter - 1
          /\ Len(cmds) = Niter + 1
          /\ cmds[Niter + 1] = Inputs(0, 0, 100)
          /\ backup # <<>>

\* C21: no step of the run changes a field of the RunOpts object it was
\* given: the object is at every point of the run what it was on entry.
C21_RunOptsImmutable == [][runOpts' = runOpts]_vars

\* the collect flag of device k is off, or the handle its sample is given
\* is None (the thermal sample is given no handle)
Disabled(k) ==
    CASE k = THERMAL -> ~runOpts.collectData
      [] k = SPECTRA -> ~runOpts.collectData \/ handles["spec"] = None
      [] k = OSC     -> ~runOpts.collectOscMeas \/ handles["osc"] = None
      [] k = EMB     -> ~runOpts.collectEmbedded \/ handles["arduinoPI"] = None

\* C22: the sample of a disabled device is never inside a driver call and
\* never ends by a driver's exception; it goes from started to finished in
\* one step that takes no time, and its result is None.
C22_DisabledTouchesNothing ==
    /\ [](\A k \in TaskIds : Disabled(k) =>
            /\ taskState[k] \notin {"blocked", "failed"}
            /\ taskResult[k] = None)
    /\ [][\A k \in TaskIds :
            (Disabled(k) /\ taskState[k] = "ready" /\ taskState'[k] # "ready")
            => (taskState'[k] = "done" /\ clock' = clock)]_vars
\* a tick has been sampled without oscilloscope handle: the other devices
\* gave readings, the oscilloscope sample gave None
C22_Witness ==
    /\ pc = "tick_measure"
    /\ mstate = "returned"
    /\ runOpts.collectOscMeas
    /\ handles["osc"] = None
    /\ taskState[OSC] = "done"
    /\ taskResult[OSC] = None
    /\ taskResult[THERMAL] # None
    /\ taskResult[EMB] # None

\* C23: when a driver raised in a sample of a tick, the tick goes on: its
\* readings are recorded, with the sentinel in place of the reading of the
\* device that raised, and its inputs are sent next.
C23_ErrorsAbsorbed ==
    [][(/\ pc = "tick_measure"
        /\ mstate = "returned"
        /\ mstate' = "off"
        /\ \E k \in TaskIds : taskState[k] = "failed")
       => /\ pc' = "send"
          /\ (taskState[THERMAL] = "failed" /\ runOpts.saveData)
                => Tsave'.at[i] = TempSentinel
          /\ (taskState[SPECTRA] = "failed" /\ runOpts.saveData)
                => Isave'.at[i] = SpecSentinel]_vars

\* exp_data_saver runs in the script, on the loaded backup
Resaving ==
    /\ devices = None
    /\ pc \in {"save_data", "save_spatial", "save_spectra", "save_osc",
               "save_emb", "save_img"}

C25_DeadlineScheduler ==
    /\ []((pc = "loop" /\ i >= 0) => clock >= runOpts.tSampling)
    /\ [][PauseStep =>
            IF runOpts.tSampling - clock > 0
            THEN clock' - clock = runOpts.tSampling - clock
            ELSE clock' = clock]_vars
\* the first tick overran and was not slept after, the second was faster and
\* has been slept after
C25_Witness ==
    /\ pc = "loop"
    /\ i = 1
    /\ runOpts.saveData
    /\ badTimes = <<0>>
    /\ clock = runOpts.tSampling

\* C26: a run that has sent the inputs of at least one tick and is over,
\* by returning or by an exception, has sent the shut-off command (power 0,
\* flow 0, duty cycle 100) after them; and when the backup is written the
\* shut-off is the last command sent, after the inputs of the last tick.
C26_ShutOffOnEveryExit ==
    /\ (pc \in {"done", "error"} /\ \E k \in DOMAIN cmds : cmds[k].cmd = "controlled")
          => cmds[Len(cmds)] = Inputs(0, 0, 100)
    /\ backup # <<>> =>
          /\ Len(cmds) = Niter + 1
          /\ cmds[Len(cmds)] = Inputs(0, 0, 100)

\* C27: every record async_get_emb returns has all its fields from the line
\* it was built from; after a line with a valid checksum whose conversion
\* raised part-way the sample reads the next line and has no result.
C27_WholeLineDecode ==
    /\ taskResult[EMB] # None => taskResult[EMB].decoded = "all"
    /\ embLine = "partial" => taskState[EMB] = "blocked" /\ taskResult[EMB] = None

\* C28: the commands sent are, in this order, the inputs (power_seq[t],
\* flow_seq[t]) of the ticks t = 0, 1, ... begun so far, one for each tick
\* whether or not it overran, and after the inputs of tick Niter-1 one
\* shut-off; nothing is sent before tick 0 has been sampled, and once the
\* loop is over there are Niter + 1 commands.
C28_ActuationSequence ==
    /\ Len(cmds) <= Niter + 1
    /\ \A k \in DOMAIN cmds :
          cmds[k] = IF k <= Niter
                    THEN [cmd |-> "controlled", P |-> power_seq[k],
                          q |-> flow_seq[k], duty |-> 0]
                    ELSE [cmd |-> "inputs", P |-> 0, q |-> 0, duty |-> 100]
    /\ pc \in {"entry", "unpack", "sizing", "alloc"} => cmds = <<>>
    /\ pc \in {"tick_measure", "send"} => Len(cmds) = i
    /\ pc \in {"pause", "loop", "shutoff"} => Len(cmds) = i + 1
    /\ pc \in {"assemble", "backup", "save_data", "saved", "done"} =>
          Len(cmds) = Niter + 1
\* a run of two ticks, the first of which overran, has returned
C28_Witness ==
    /\ pc = "done"
    /\ Niter = 2
    /\ badTimes = <<0>>
    /\ Len(cmds) = 3
    /\ cmds[2].cmd = "controlled"
    /\ cmds[3].cmd = "inputs"

\* the local names that the assembly of the run record reads under opts
ReadByAssembly(opts) ==
    {"Tsave", "Isave", "badTimes"}
    \cup (IF opts.collectSpatialTemp THEN {"Ts2save", "Ts3save"} ELSE {})
    \cup (IF opts.saveEntireImage THEN {"raw_img_save_files", "mmap_opts"} ELSE {})
    \cup (IF opts.collectEntireSpectra
          THEN {"waveSave", "specSave", "meanShiftSave"} ELSE {})
    \cup (IF opts.collectOscMeas THEN {"oscSave"} ELSE {})
    \cup (IF opts.collectEmbedded THEN {"ArdSave"} ELSE {})
\* the fields of the run record that exp_data_saver reads under opts
ReadBySaver(opts) ==
    (IF opts.saveData THEN {"Tsave", "Isave", "Psave", "qSave", "badTimes"} ELSE {})
    \cup (IF opts.saveSpatialTemp THEN {"Tsave", "Ts2save", "Ts3save"} ELSE {})
    \cup (IF opts.saveSpectra THEN {"waveSave", "specSave", "meanShiftSave"} ELSE {})
    \cup (IF opts.saveOscMeas THEN {"oscSave"} ELSE {})
    \cup (IF opts.saveEmbMeas THEN {"ArdSave"} ELSE {})
    \cup (IF opts.saveEntireImage
          THEN {"raw_img_save_files", "mmap_opts", "Niter"} ELSE {})

\* C29: whatever the flags, when the run record is assembled every local
\* name the assembly reads has been bound, and when exp_data_saver is
\* entered the record has every field the saver reads.
C29_FlagConsistency ==
    /\ pc = "assemble" => ReadByAssembly(runOpts) \subseteq bound
    /\ pc = "save_data" => ReadBySaver(runOpts) \subseteq DOMAIN exp_data

\* the frame a thermal sample that returns now is given: the oldest one
\* queued, or on an empty queue the one that comes while it waits
FrameTaken == IF q # <<>> THEN Head(q) ELSE Len(cmds)

\* C30: the frame given to the thermal sample of a tick i >= 1 was taken by
\* the camera when the inputs of tick i-1 had been sent, that is when at
\* least i commands had been sent.
C30_FrameFreshness ==
    [][(/\ pc = "tick_measure"
        /\ i >= 1
        /\ taskState[THERMAL] = "blocked"
        /\ taskState'[THERMAL] = "done")
       => FrameTaken >= i]_vars
====
